---- MODULE Spec2Model ----
(***************************************************************************)
(* Daily task tracker (src/pages/task-tracker.js): the TaskTracker class,  *)
(* its local-storage persistence and the JavaScript Date arithmetic its    *)
(* date expansion and day navigation rest on.                              *)
(*                                                                         *)
(* Time values are whole hours since 2026-01-01T00:00Z.  A YYYY-MM-DD      *)
(* string is the tuple <<year, month, day>>; the empty string of an empty  *)
(* date input is the empty tuple.                                          *)
(***************************************************************************)
EXTENDS Integers, Sequences, FiniteSets, TLC

\* ------------------------------------------------------------------------
\* Bounds of the model
\* ------------------------------------------------------------------------
MaxTasks == 2

MaxNav == 1

MaxTicks == 1

\* Operations of the auth manager waiting for the provider at the same time.
MaxInFlight == 1

\* Minutes the page with the session stays open.
MaxMinutes == 2

\* The 100 ms retries of setupPageAuthentication that are followed.
MaxRetries == 2

\* ------------------------------------------------------------------------
\* Proleptic Gregorian calendar, as used by ECMAScript Date
\* ------------------------------------------------------------------------
NoDate == <<>>

IsLeap(y) == (y % 4 = 0 /\ y % 100 # 0) \/ y % 400 = 0

DaysInMonth(y, m) ==
    IF m = 2 THEN (IF IsLeap(y) THEN 29 ELSE 28)
    ELSE IF m \in {4, 6, 9, 11} THEN 30 ELSE 31

PrevMonth(y, m) == IF m = 1 THEN <<y - 1, 12>> ELSE <<y, m - 1>>

NextMonth(y, m) == IF m = 12 THEN <<y + 1, 1>> ELSE <<y, m + 1>>

\* Day number (days since 2026-01-01) of the first day of month m of year y.
RECURSIVE MonthStart(_, _)
MonthStart(y, m) ==
    IF y = 2026 /\ m = 1 THEN 0
    ELSE IF y > 2026 \/ (y = 2026 /\ m > 1)
         THEN LET p == PrevMonth(y, m)
              IN  MonthStart(p[1], p[2]) + DaysInMonth(p[1], p[2])
         ELSE LET n == NextMonth(y, m)
              IN  MonthStart(n[1], n[2]) - DaysInMonth(y, m)

\* ECMAScript MakeDay(year, month, date): the day value may lie outside the
\* month (0, 32, ...) and then runs over into the neighbouring months.
MakeDay(y, m, d) == MonthStart(y, m) + d - 1

\* Inverse of MakeDay: the calendar date of a day number.
RECURSIVE CivilFrom(_, _, _)
CivilFrom(y, m, r) ==
    IF r < 0
    THEN LET p == PrevMonth(y, m)
         IN  CivilFrom(p[1], p[2], r + DaysInMonth(p[1], p[2]))
    ELSE IF r >= DaysInMonth(y, m)
         THEN LET n == NextMonth(y, m)
              IN  CivilFrom(n[1], n[2], r - DaysInMonth(y, m))
         ELSE <<y, m, r + 1>>

CivilFromDays(n) == CivilFrom(2026, 1, n)

\* ------------------------------------------------------------------------
\* Host time zones: the environment the page runs in
\* ------------------------------------------------------------------------
\* std: standard offset from UTC in hours; dst: whether daylight saving time
\* starts inside the modelled window; dstStart: the UTC instant it starts.
UTCZone == [name |-> "UTC", std |-> 0, dst |-> FALSE, dstStart |-> 0]

\* Europe/Berlin 2026: 02:00 CET on March 29 = 2026-03-29T01:00Z.
BerlinZone == [name |-> "Europe/Berlin", std |-> 1, dst |-> TRUE,
               dstStart |-> 24 * MakeDay(2026, 3, 29) + 1]

\* America/New_York 2026: 02:00 EST on March 8 = 2026-03-08T07:00Z.
NewYorkZone == [name |-> "America/New_York", std |-> 0 - 5, dst |-> TRUE,
                dstStart |-> 24 * MakeDay(2026, 3, 8) + 7]

TimeZones == {UTCZone, BerlinZone, NewYorkZone}

\* Offset of local time from UTC at the UTC instant t.
Offset(z, t) == z.std + (IF z.dst /\ t >= z.dstStart THEN 1 ELSE 0)

\* ECMAScript LocalTime(t).
LocalTime(z, t) == t + Offset(z, t)

\* ECMAScript UTC(t): a local time skipped by the transition is read with the
\* offset before the transition.
UTCTime(z, l) ==
    LET cands == {t \in {l - z.std - 1, l - z.std} : LocalTime(z, t) = l}
    IN  IF cands = {} THEN l - z.std
        ELSE CHOOSE t \in cands : \A u \in cands : t <= u

\* ------------------------------------------------------------------------
\* Date methods used by the tracker
\* ------------------------------------------------------------------------
\* new Date("YYYY-MM-DD"): a date-only string is UTC midnight.
DateParse(s) == 24 * MakeDay(s[1], s[2], s[3])

\* d.toISOString().split('T')[0]: the UTC calendar date.
ISODate(t) == CivilFromDays(t \div 24)

\* The local calendar fields of a time value.
LocalCivil(z, t) == CivilFromDays(LocalTime(z, t) \div 24)

getFullYear(z, t) == LocalCivil(z, t)[1]

getMonth(z, t) == LocalCivil(z, t)[2]

getDate(z, t) == LocalCivil(z, t)[3]

\* d.setDate(n): replaces the local day of month, keeps the local time of day.
setDate(z, t, n) ==
    LET l == LocalTime(z, t)
        c == CivilFromDays(l \div 24)
    IN  UTCTime(z, 24 * MakeDay(c[1], c[2], n) + (l % 24))

\* new Date(year, month, day): local midnight.  month is 1-based here and may
\* be 13 (December + 1), which runs over into the next year.
DateLocal(z, y, m, d) ==
    LET ym == IF m = 13 THEN <<y + 1, 1>> ELSE <<y, m>>
    IN  UTCTime(z, 24 * MakeDay(ym[1], ym[2], d))

\* d.toLocaleDateString(...): the local calendar date.
toLocaleDateString(z, t) == LocalCivil(z, t)

\* ------------------------------------------------------------------------
\* TaskTracker.generateTaskDates
\* ------------------------------------------------------------------------
RECURSIVE WeekLoop(_, _, _)
WeekLoop(z, start, i) ==
    IF i < 7
    THEN <<ISODate(setDate(z, start, getDate(z, start) + i))>>
         \o WeekLoop(z, start, i + 1)
    ELSE <<>>

RECURSIVE MonthLoop(_, _, _, _, _)
MonthLoop(z, year, month, day, daysInMonth) ==
    IF day <= daysInMonth
    THEN <<ISODate(DateLocal(z, year, month, day))>>
         \o MonthLoop(z, year, month, day + 1, daysInMonth)
    ELSE <<>>

RECURSIVE CustomLoop(_, _, _)
CustomLoop(z, current, end) ==
    IF current <= end
    THEN <<ISODate(current)>>
         \o CustomLoop(z, setDate(z, current, getDate(z, current) + 1), end)
    ELSE <<>>

generateTaskDates(z, period, startDate, endDate) ==
    LET start == DateParse(startDate)
    IN  IF period = "day" THEN <<startDate>>
        ELSE IF period = "week" THEN WeekLoop(z, start, 0)
        ELSE IF period = "month"
             THEN LET year == getFullYear(z, start)
                      month == getMonth(z, start)
                      daysInMonth == getDate(z, DateLocal(z, year, month + 1, 0))
                  IN  MonthLoop(z, year, month, getDate(z, start), daysInMonth)
        ELSE IF period = "custom" /\ endDate # NoDate
             THEN CustomLoop(z, start, DateParse(endDate))
        ELSE <<>>

\* ------------------------------------------------------------------------
\* State
\* ------------------------------------------------------------------------
VARIABLES
    tz,           \* host time zone of the browser
    clock,        \* wall clock: t = hours since the epoch, ms = milliseconds past it
    page,         \* "loading" before the TaskTracker is constructed, "ready"
                  \* once init has returned, "failed" if it threw
    tasks,        \* this.tasks
    currentDate,  \* this.currentDate (a time value)
    storage,      \* localStorage slot 'tasks'
    writable,     \* whether localStorage.setItem succeeds in this browser
    form,         \* #task-period, #task-end-date and #custom-date-fields
    formError,    \* #form-error text
    taskList,     \* #task-list: the rendered task items
    dateDisplay,  \* #current-date header
    stats,        \* #stat-total, #stat-assigned, #stat-inprogress, #stat-completed
    endpoint,     \* window.API_CONFIG.endpoint
    remote,       \* outcome of the last remote submission shown to the user
    authLoaded,   \* whether the auth script and the App have been constructed
    isAuthenticated,  \* authManager.isAuthenticated
    user,         \* authManager.user
    tokens,       \* authManager.tokens
    authSlot,     \* localStorage slot 'auth_tokens'
    pending,      \* the auth operations waiting for the identity provider
    result,       \* the operation that completed last and what it resolved to
    dispatched,   \* 'authStateChanged' events dispatched by that operation
    sessionClock, \* Date.now() as read by the session code, in milliseconds
    urlCode,      \* the 'code' parameter of the page URL, "" when it has none
    ui,           \* the sections shown by App.updateUIState
    windowAuthManager,  \* whether window.authManager is the auth manager
    windowApp,    \* whether window.app is set
    pageAuth,     \* how far setupPageAuthentication has come on this page
    retries,      \* the 100 ms retries it has scheduled
    loginRequired,      \* whether #login-required is displayed
    modal,        \* whether #auth-modal is displayed
    currentAuthMode,    \* app.currentAuthMode
    newPasswordUser,    \* window.newPasswordUser
    resetPasswordEmail  \* window.resetPasswordEmail

trackerVars == <<tz, clock, page, tasks, currentDate, storage, writable, form,
                 formError, taskList, dateDisplay, stats>>

remoteVars == <<endpoint, remote>>

authVars == <<authLoaded, isAuthenticated, user, tokens, authSlot, pending,
              result, dispatched, sessionClock, urlCode, ui>>

pageVars == <<windowAuthManager, windowApp, pageAuth, retries, loginRequired,
              modal, currentAuthMode, newPasswordUser, resetPasswordEmail>>

vars == <<trackerVars, remoteVars, authVars, pageVars>>

\* ------------------------------------------------------------------------
\* Input domains
\* ------------------------------------------------------------------------
Statuses == {"Assigned", "In-progress", "Completed"}

\* Any string can be passed to updateTaskStatus from outside the status select.
OpenStatuses == Statuses \cup {"Done"}

Periods == {"day", "week", "month", "custom"}

PeriodOptions == Periods \cup {""}

Names == {"", " ", "a"}

Categories == {"", "Chores"}

\* The page is opened at 2026-03-29T00:00Z: 01:00 in Berlin, an hour before
\* daylight saving time starts there, and March 28, 20:00 in New York.
LoadInstants == {24 * MakeDay(2026, 3, 29)}

StartDates == {NoDate}

EndDates == {<<2026, 3, 28>>, <<2026, 3, 30>>}

\* String.prototype.trim on the modelled names.
Trim(s) == IF s = " " THEN "" ELSE s

\* Date.now(): the clock reading, counted in the modelled milliseconds of
\* each hour.
DateNow(c) == c.t * (MaxTicks + 1) + c.ms

\* new Date().toISOString()
ISOTimestamp(c) == [date |-> ISODate(c.t), hour |-> c.t % 24, ms |-> c.ms]

\* null
Null == [kind |-> "null"]

\* The endpoint of src api-config as shipped, and one set by the owner.
Placeholder == "https://YOUR_API_GATEWAY_ENDPOINT_URL_HERE"

Endpoints == {Placeholder, "https://api.example/prod/tasks"}

NoSubmission == "none"

\* No operation of the auth manager has completed yet.
NoResult == [op |-> "none"]

\* The session code first reads the clock ten minutes after the epoch.
PageOpened == 600000

NoSections ==
    [protected |-> FALSE, welcome |-> FALSE, error |-> FALSE, authBtn |-> ""]

\* ------------------------------------------------------------------------
\* Persistence: JSON.stringify / JSON.parse and the 'tasks' slot
\* ------------------------------------------------------------------------
Absent == [kind |-> "absent"]

Malformed == [kind |-> "malformed"]

\* One JSON object per task: its members in insertion order, each a
\* <<key, JSON type, value>> triple.
TaskToJSON(t) ==
    << <<"id", "number", t.id>>,
       <<"name", "string", t.name>>,
       <<"category", "string", t.category>>,
       <<"period", "string", t.period>>,
       <<"startDate", "string", t.startDate>>,
       <<"endDate", "string", t.endDate>>,
       <<"status", "string", t.status>>,
       <<"createdAt", "string", t.createdAt>>,
       <<"dates", "array", t.dates>> >>

JSONstringify(ts) ==
    [kind |-> "json", text |-> [i \in 1..Len(ts) |-> TaskToJSON(ts[i])]]

Member(obj, key) == obj[CHOOSE i \in 1..Len(obj) : obj[i][1] = key][3]

\* TaskFromJSON with every loaded task put back to its initial status.
TaskFromJSONStatusReset(obj) ==
    [id |-> Member(obj, "id"), name |-> Member(obj, "name"),
     category |-> Member(obj, "category"), period |-> Member(obj, "period"),
     startDate |-> Member(obj, "startDate"), endDate |-> Member(obj, "endDate"),
     status |-> "Assigned", createdAt |-> Member(obj, "createdAt"),
     dates |-> Member(obj, "dates")]

HasMember(obj, key) == \E i \in 1..Len(obj) : obj[i][1] = key

\* The object JSON.parse builds: it has the members of the text, so no dates
\* when the text has none.
TaskFromJSON(obj) ==
    IF HasMember(obj, "dates")
    THEN [id |-> Member(obj, "id"), name |-> Member(obj, "name"),
          category |-> Member(obj, "category"),
          period |-> Member(obj, "period"),
          startDate |-> Member(obj, "startDate"),
          endDate |-> Member(obj, "endDate"),
          status |-> Member(obj, "status"),
          createdAt |-> Member(obj, "createdAt"),
          dates |-> Member(obj, "dates")]
    ELSE [id |-> Member(obj, "id"), name |-> Member(obj, "name"),
          category |-> Member(obj, "category"),
          period |-> Member(obj, "period"),
          startDate |-> Member(obj, "startDate"),
          endDate |-> Member(obj, "endDate"),
          status |-> Member(obj, "status"),
          createdAt |-> Member(obj, "createdAt")]

JSONparse(text) == [i \in 1..Len(text) |-> TaskFromJSON(text[i])]

\* saveTasks: setItem either stores the whole text or throws (quota exceeded,
\* storage disabled); the exception is caught and logged.
saveTasks(ts, old, ok) == IF ok THEN JSONstringify(ts) ELSE old

\* A task left in the slot by an earlier visit, one hour before.
StoredTask(z, t) ==
    [id |-> DateNow([t |-> t - 1, ms |-> 0]), name |-> "a", category |-> "Chores",
     period |-> "day", startDate |-> ISODate(t), endDate |-> ISODate(t),
     status |-> "In-progress",
     createdAt |-> [date |-> ISODate(t - 1), hour |-> (t - 1) % 24, ms |-> 0],
     dates |-> generateTaskDates(z, "day", ISODate(t), NoDate)]

\* The browsers the page is opened in: the content of the slot and whether
\* it can be written.
Environments(z, t) ==
    {[slot |-> Absent, writable |-> TRUE],
     [slot |-> Malformed, writable |-> TRUE],
     [slot |-> JSONstringify(<<StoredTask(z, t)>>), writable |-> TRUE],
     [slot |-> JSONstringify(<<StoredTask(z, t)>>), writable |-> FALSE]}

\* Text in the slot that decodes to a JSON value other than an array: null,
\* a number, an object.
JSONValue(value) == [kind |-> "json-value", value |-> value]

OtherValues ==
    {Null, [kind |-> "number", value |-> 5], [kind |-> "object"]}

\* The text an earlier version of the page would have stored for a task:
\* the object without its dates member.
TaskToJSONWithoutDates(t) == SubSeq(TaskToJSON(t), 1, 8)

\* What the slot can hold besides the collections saved by this page.
OtherContents(z, t) ==
    {JSONValue(v) : v \in OtherValues}
    \cup {[kind |-> "json",
            text |-> <<TaskToJSONWithoutDates(StoredTask(z, t))>>]}

\* loadTasks: an absent slot and a JSON.parse exception both give []; any
\* text that decodes is taken as it is.
loadTasks(slot) ==
    IF slot.kind = "json" THEN JSONparse(slot.text)
    ELSE IF slot.kind = "json-value" THEN slot.value
    ELSE <<>>

\* Whether this.tasks.filter(task => task.dates.includes(...)) throws a
\* TypeError on the value loaded from the slot: the value is not an array,
\* or one of its elements has no dates.
FilterThrows(slot) ==
    \/ slot.kind = "json-value"
    \/ /\ slot.kind = "json"
       /\ \E i \in 1..Len(slot.text) : ~HasMember(slot.text[i], "dates")

\* ------------------------------------------------------------------------
\* Rendering
\* ------------------------------------------------------------------------
tasksForDate(z, ts, d) ==
    LET currentDateStr == ISODate(d)
    IN  SelectSeq(ts, LAMBDA task :
            \E i \in 1..Len(task.dates) : task.dates[i] = currentDateStr)

RenderItem(t) == [id |-> t.id, name |-> t.name, category |-> t.category,
                  status |-> t.status]

\* displayTasksForDate with the filter written as a range test between
\* startDate and endDate instead of membership in dates.
displayTasksForDateByRange(z, ts, d) ==
    LET day == MakeDay(ISODate(d)[1], ISODate(d)[2], ISODate(d)[3])
        shown == SelectSeq(ts, LAMBDA task :
            /\ MakeDay(task.startDate[1], task.startDate[2], task.startDate[3])
                  <= day
            /\ day <= MakeDay(task.endDate[1], task.endDate[2], task.endDate[3]))
    IN  [i \in 1..Len(shown) |-> RenderItem(shown[i])]

\* displayTasksForDate: the items written to #task-list.
displayTasksForDate(z, ts, d) ==
    LET shown == tasksForDate(z, ts, d)
    IN  [i \in 1..Len(shown) |-> RenderItem(shown[i])]

CountStatus(ts, s) == Len(SelectSeq(ts, LAMBDA t : t.status = s))

\* updateStatistics: the four counters.
updateStatistics(z, ts, d) ==
    LET shown == tasksForDate(z, ts, d)
    IN  [total |-> Len(shown),
         assigned |-> CountStatus(shown, "Assigned"),
         inProgress |-> CountStatus(shown, "In-progress"),
         completed |-> CountStatus(shown, "Completed")]

\* setupDateInput: today's UTC date as default of #task-start-date.
setupDateInput(c) == ISODate(c.t)

InitialForm == [period |-> "", endDate |-> NoDate, customDisplay |-> "none"]

\* ------------------------------------------------------------------------
\* Initial states
\* ------------------------------------------------------------------------
\* The endpoint as shipped, before any submission.
RemoteIdle ==
    /\ endpoint = Placeholder
    /\ remote = NoSubmission

\* A page that exposes the auth manager as window.authManager and does not
\* include the page-auth script, before any of its scripts has run.
PageIdle ==
    /\ windowAuthManager = TRUE
    /\ windowApp = FALSE
    /\ pageAuth = "absent"
    /\ retries = 0
    /\ loginRequired = FALSE
    /\ modal = FALSE
    /\ currentAuthMode = "signin"
    /\ newPasswordUser = Null
    /\ resetPasswordEmail = Null

\* The session state before the auth script has run.
SessionIdle ==
    /\ PageIdle
    /\ authLoaded = FALSE
    /\ isAuthenticated = FALSE
    /\ user = Null
    /\ tokens = Null
    /\ authSlot = Absent
    /\ pending = {}
    /\ result = NoResult
    /\ dispatched = 0
    /\ sessionClock = PageOpened
    /\ urlCode = ""
    /\ ui = NoSections

Init ==
    /\ tz \in TimeZones
    /\ \E t \in LoadInstants :
          /\ clock = [t |-> t, ms |-> 0]
          /\ \E env \in Environments(tz, t) :
                /\ storage = env.slot
                /\ writable = env.writable
          /\ currentDate = t
    /\ page = "loading"
    /\ tasks = <<>>
    /\ form = InitialForm
    /\ formError = ""
    /\ taskList = <<>>
    /\ dateDisplay = NoDate
    /\ stats = [total |-> 0, assigned |-> 0, inProgress |-> 0, completed |-> 0]
    /\ RemoteIdle
    /\ SessionIdle

\* ------------------------------------------------------------------------
\* Operations
\* ------------------------------------------------------------------------
\* Construct with loadTasks lacking its try/catch: the JSON.parse exception
\* leaves the constructor and init stops before the display steps.
ConstructWithoutCatch ==
    /\ tasks' = loadTasks(storage)
    /\ currentDate' = clock.t
    /\ form' = InitialForm
    /\ formError' = ""
    /\ IF storage.kind = "malformed"
       THEN /\ page' = "failed"
            /\ UNCHANGED <<taskList, dateDisplay, stats>>
       ELSE /\ page' = "ready"
            /\ taskList' = displayTasksForDate(tz, tasks', currentDate')
            /\ dateDisplay' = toLocaleDateString(tz, currentDate')
            /\ stats' = updateStatistics(tz, tasks', currentDate')
    /\ UNCHANGED <<remoteVars, authVars, pageVars>>
    /\ UNCHANGED <<tz, clock, storage, writable>>

\* new TaskTracker(): constructor and init, on page load and on every reload.
Construct ==
    /\ tasks' = loadTasks(storage)
    /\ currentDate' = clock.t
    /\ form' = InitialForm
    /\ formError' = ""
    /\ dateDisplay' = toLocaleDateString(tz, currentDate')
    /\ IF FilterThrows(storage)
       THEN /\ page' = "failed"
            /\ UNCHANGED <<taskList, stats>>
       ELSE /\ page' = "ready"
            /\ taskList' = displayTasksForDate(tz, tasks', currentDate')
            /\ stats' = updateStatistics(tz, tasks', currentDate')
    /\ UNCHANGED <<remoteVars, authVars, pageVars>>
    /\ UNCHANGED <<tz, clock, storage, writable>>

\* handlePeriodChange without the reset of #task-end-date when the custom
\* fields are hidden.
handlePeriodChangeKeepingEndDate(period) ==
    /\ page = "ready"
    /\ period # form.period
    /\ form' = [form EXCEPT !.period = period,
                            !.customDisplay = IF period = "custom"
                                              THEN "flex" ELSE "none"]
    /\ UNCHANGED <<remoteVars, authVars, pageVars>>
    /\ UNCHANGED <<tz, clock, page, tasks, currentDate, storage, writable,
                   formError, taskList, dateDisplay, stats>>

\* handlePeriodChange: the user picks another option of #task-period.
handlePeriodChange(period) ==
    /\ page = "ready"
    /\ period # form.period
    /\ form' = IF period = "custom"
               THEN [form EXCEPT !.period = period, !.customDisplay = "flex"]
               ELSE [period |-> period, endDate |-> NoDate,
                     customDisplay |-> "none"]
    /\ UNCHANGED <<remoteVars, authVars, pageVars>>
    /\ UNCHANGED <<tz, clock, page, tasks, currentDate, storage, writable, formError,
                   taskList, dateDisplay, stats>>

\* The user fills #task-end-date, which can be reached while its container
\* is displayed.
editEndDate(endDate) ==
    /\ page = "ready"
    /\ form.customDisplay = "flex"
    /\ endDate # form.endDate
    /\ form' = [form EXCEPT !.endDate = endDate]
    /\ UNCHANGED <<remoteVars, authVars, pageVars>>
    /\ UNCHANGED <<tz, clock, page, tasks, currentDate, storage, writable, formError,
                   taskList, dateDisplay, stats>>

\* ValidationError without the check of the custom range.
ValidationErrorNoRangeCheck(taskName, category, period, startDate, endDate) ==
    IF taskName = "" \/ category = "" \/ period = "" \/ startDate = NoDate
    THEN "Please fill in all required fields."
    ELSE IF period = "custom" /\ endDate = NoDate
    THEN "Please select an end date for custom range."
    ELSE ""

\* The validation of handleCreateTask: the message of the first failing
\* check, "" when the submission is accepted.
ValidationError(taskName, category, period, startDate, endDate) ==
    IF taskName = "" \/ category = "" \/ period = "" \/ startDate = NoDate
    THEN "Please fill in all required fields."
    ELSE IF period = "custom" /\ endDate = NoDate
    THEN "Please select an end date for custom range."
    ELSE IF period = "custom" /\ DateParse(endDate) < DateParse(startDate)
    THEN "End date must be after start date."
    ELSE ""

NewTask(z, c, taskName, category, period, startDate, endDate) ==
    [id |-> DateNow(c), name |-> taskName, category |-> category,
     period |-> period, startDate |-> startDate,
     endDate |-> IF endDate # NoDate THEN endDate ELSE startDate,
     status |-> "Assigned", createdAt |-> ISOTimestamp(c),
     dates |-> generateTaskDates(z, period, startDate, endDate)]

\* handleCreateTask: submit of #task-form with the given name, category and
\* start date and the period and end date held by the form.
handleCreateTask(name, category, startDate) ==
    LET taskName == Trim(name)
        period == form.period
        endDate == form.endDate
        err == ValidationError(taskName, category, period, startDate, endDate)
    IN  /\ page = "ready"
        /\ IF err # ""
           THEN /\ formError' = err
                /\ UNCHANGED <<tasks, storage, taskList, dateDisplay, stats,
                               form>>
           ELSE /\ Len(tasks) < MaxTasks
                /\ tasks' = Append(tasks, NewTask(tz, clock, taskName, category,
                                                  period, startDate, endDate))
                /\ storage' = saveTasks(tasks', storage, writable)
                /\ taskList' = displayTasksForDate(tz, tasks', currentDate)
                /\ dateDisplay' = toLocaleDateString(tz, currentDate)
                /\ stats' = updateStatistics(tz, tasks', currentDate)
                /\ form' = [form EXCEPT !.period = "", !.endDate = NoDate]
                /\ formError' = ""
        /\ UNCHANGED <<remoteVars, authVars, pageVars>>
        /\ UNCHANGED <<tz, clock, page, currentDate, writable>>

\* previousDate
previousDate ==
    /\ page = "ready"
    /\ currentDate' = setDate(tz, currentDate, getDate(tz, currentDate) - 1)
    /\ (LocalTime(tz, clock.t) \div 24) - (LocalTime(tz, currentDate') \div 24)
          <= MaxNav
    /\ taskList' = displayTasksForDate(tz, tasks, currentDate')
    /\ dateDisplay' = toLocaleDateString(tz, currentDate')
    /\ UNCHANGED <<remoteVars, authVars, pageVars>>
    /\ UNCHANGED <<tz, clock, page, tasks, storage, writable, form, formError,
                   stats>>

\* nextDate with the filtered list assigned to this.tasks.
nextDateKeepingVisible ==
    /\ page = "ready"
    /\ currentDate' = setDate(tz, currentDate, getDate(tz, currentDate) + 1)
    /\ (LocalTime(tz, currentDate') \div 24) - (LocalTime(tz, clock.t) \div 24)
          <= MaxNav
    /\ tasks' = tasksForDate(tz, tasks, currentDate')
    /\ taskList' = displayTasksForDate(tz, tasks', currentDate')
    /\ dateDisplay' = toLocaleDateString(tz, currentDate')
    /\ UNCHANGED <<remoteVars, authVars, pageVars>>
    /\ UNCHANGED <<tz, clock, page, storage, writable, form, formError, stats>>

\* nextDate
nextDate ==
    /\ page = "ready"
    /\ currentDate' = setDate(tz, currentDate, getDate(tz, currentDate) + 1)
    /\ (LocalTime(tz, currentDate') \div 24) - (LocalTime(tz, clock.t) \div 24)
          <= MaxNav
    /\ taskList' = displayTasksForDate(tz, tasks, currentDate')
    /\ dateDisplay' = toLocaleDateString(tz, currentDate')
    /\ UNCHANGED <<remoteVars, authVars, pageVars>>
    /\ UNCHANGED <<tz, clock, page, tasks, storage, writable, form, formError,
                   stats>>

\* tasks.find(t => t.id === taskId): index of the first match, 0 if none.
FindTask(ts, taskId) ==
    IF \E i \in 1..Len(ts) : ts[i].id = taskId
    THEN CHOOSE i \in 1..Len(ts) :
            /\ ts[i].id = taskId
            /\ \A j \in 1..(i - 1) : ts[j].id # taskId
    ELSE 0

\* updateTaskStatus without its call of saveTasks.
updateTaskStatusNoSave(taskId, newStatus) ==
    LET i == FindTask(tasks, taskId)
    IN  /\ page = "ready"
        /\ IF i # 0
           THEN /\ tasks' = [tasks EXCEPT ![i].status = newStatus]
                /\ taskList' = displayTasksForDate(tz, tasks', currentDate)
                /\ dateDisplay' = toLocaleDateString(tz, currentDate)
                /\ stats' = updateStatistics(tz, tasks', currentDate)
                /\ UNCHANGED storage
           ELSE UNCHANGED <<tasks, storage, taskList, dateDisplay, stats>>
        /\ UNCHANGED <<remoteVars, authVars, pageVars>>
        /\ UNCHANGED <<tz, clock, page, currentDate, writable, form, formError>>

\* updateTaskStatus written with forEach over every task of that id instead
\* of find.
updateTaskStatusEveryMatch(taskId, newStatus) ==
    /\ page = "ready"
    /\ IF FindTask(tasks, taskId) # 0
       THEN /\ tasks' = [i \in 1..Len(tasks) |->
                            IF tasks[i].id = taskId
                            THEN [tasks[i] EXCEPT !.status = newStatus]
                            ELSE tasks[i]]
            /\ storage' = saveTasks(tasks', storage, writable)
            /\ taskList' = displayTasksForDate(tz, tasks', currentDate)
            /\ dateDisplay' = toLocaleDateString(tz, currentDate)
            /\ stats' = updateStatistics(tz, tasks', currentDate)
       ELSE UNCHANGED <<tasks, storage, taskList, dateDisplay, stats>>
    /\ UNCHANGED <<remoteVars, authVars, pageVars>>
    /\ UNCHANGED <<tz, clock, page, currentDate, writable, form, formError>>

\* updateTaskStatus, called by the status select of a rendered item.
updateTaskStatus(taskId, newStatus) ==
    LET i == FindTask(tasks, taskId)
    IN  /\ page = "ready"
        /\ IF i # 0
           THEN /\ tasks' = [tasks EXCEPT ![i].status = newStatus]
                /\ storage' = saveTasks(tasks', storage, writable)
                /\ taskList' = displayTasksForDate(tz, tasks', currentDate)
                /\ dateDisplay' = toLocaleDateString(tz, currentDate)
                /\ stats' = updateStatistics(tz, tasks', currentDate)
           ELSE UNCHANGED <<tasks, storage, taskList, dateDisplay, stats>>
        /\ UNCHANGED <<remoteVars, authVars, pageVars>>
        /\ UNCHANGED <<tz, clock, page, currentDate, writable, form, formError>>

\* deleteTask without its call of saveTasks.
deleteTaskNoSave(taskId, confirmed) ==
    /\ page = "ready"
    /\ IF confirmed
       THEN /\ tasks' = SelectSeq(tasks, LAMBDA t : t.id # taskId)
            /\ taskList' = displayTasksForDate(tz, tasks', currentDate)
            /\ dateDisplay' = toLocaleDateString(tz, currentDate)
            /\ stats' = updateStatistics(tz, tasks', currentDate)
            /\ UNCHANGED storage
       ELSE UNCHANGED <<tasks, storage, taskList, dateDisplay, stats>>
    /\ UNCHANGED <<remoteVars, authVars, pageVars>>
    /\ UNCHANGED <<tz, clock, page, currentDate, writable, form, formError>>

\* deleteTask, called by the delete button of a rendered item; confirmed is
\* the answer to the confirm() dialog.
deleteTask(taskId, confirmed) ==
    /\ page = "ready"
    /\ IF confirmed
       THEN /\ tasks' = SelectSeq(tasks, LAMBDA t : t.id # taskId)
            /\ storage' = saveTasks(tasks', storage, writable)
            /\ taskList' = displayTasksForDate(tz, tasks', currentDate)
            /\ dateDisplay' = toLocaleDateString(tz, currentDate)
            /\ stats' = updateStatistics(tz, tasks', currentDate)
       ELSE UNCHANGED <<tasks, storage, taskList, dateDisplay, stats>>
    /\ UNCHANGED <<remoteVars, authVars, pageVars>>
    /\ UNCHANGED <<tz, clock, page, currentDate, writable, form, formError>>

\* The wall clock advances by a millisecond.
Tick ==
    /\ clock.ms < MaxTicks
    /\ clock' = [clock EXCEPT !.ms = clock.ms + 1]
    /\ UNCHANGED <<remoteVars, authVars, pageVars>>
    /\ UNCHANGED <<tz, page, tasks, currentDate, storage, writable, form, formError,
                   taskList, dateDisplay, stats>>

RenderedIds == {taskList[i].id : i \in 1..Len(taskList)}

StartChoices == StartDates \cup {setupDateInput(clock)}

\* ------------------------------------------------------------------------
\* Specifications
\* ------------------------------------------------------------------------
FormEvents ==
    \/ \E p \in PeriodOptions : handlePeriodChange(p)
    \/ \E e \in EndDates : editEndDate(e)
    \/ \E n \in Names, c \in Categories, s \in StartChoices :
          handleCreateTask(n, c, s)

ItemEvents ==
    \/ \E id \in RenderedIds, s \in Statuses : updateTaskStatus(id, s)
    \/ \E id \in RenderedIds, confirmed \in BOOLEAN : deleteTask(id, confirmed)

NavEvents == previousDate \/ nextDate

\* The whole page.
Next == Construct \/ FormEvents \/ ItemEvents \/ NavEvents \/ Tick

Spec == Init /\ [][Next]_vars

\* The whole page within one reading of the clock.
NextInstant == Construct \/ FormEvents \/ ItemEvents \/ NavEvents

SpecInstant == Init /\ [][NextInstant]_vars

\* The page on the day it was opened, without navigation.
NextDay == Construct \/ FormEvents \/ ItemEvents

SpecDay == Init /\ [][NextDay]_vars

\* The whole page within one reading of the clock, with updateTaskStatus also
\* called with a string that is not an option of the status select.
NextOpen ==
    \/ NextInstant
    \/ \E id \in RenderedIds, s \in OpenStatuses \ Statuses :
          updateTaskStatus(id, s)

SpecOpen == Init /\ [][NextOpen]_vars

\* The collections an earlier visit can have left in the slot: up to MaxTasks
\* tasks created through the form, one hour before.
EarlierTasks(z, t) ==
    LET c == [t |-> t - 1, ms |-> 0]
    IN  {NewTask(z, c, "a", "Chores", "day", ISODate(t), NoDate),
         NewTask(z, c, "a", "Chores", "week", ISODate(t - 24), NoDate),
         NewTask(z, c, "a", "Chores", "custom", ISODate(t), ISODate(t + 24))}

EarlierCollections(z, t) ==
    UNION {[1..n -> EarlierTasks(z, t)] : n \in 0..MaxTasks}

InitView ==
    /\ tz \in TimeZones
    /\ \E t \in LoadInstants :
          /\ clock = [t |-> t, ms |-> 0]
          /\ storage \in {Absent, Malformed}
                \cup {JSONstringify(ts) : ts \in EarlierCollections(tz, t)}
          /\ currentDate = t
    /\ writable \in BOOLEAN
    /\ page = "loading"
    /\ tasks = <<>>
    /\ form = InitialForm
    /\ formError = ""
    /\ taskList = <<>>
    /\ dateDisplay = NoDate
    /\ stats = [total |-> 0, assigned |-> 0, inProgress |-> 0, completed |-> 0]
    /\ RemoteIdle
    /\ SessionIdle

\* The page browsing the days around its opening date, over the tasks of
\* earlier visits.
NextView == Construct \/ ItemEvents \/ NavEvents

SpecView == InitView /\ [][NextView]_vars

\* The page opened on any content of the slot.
InitLoad ==
    /\ tz \in TimeZones
    /\ \E t \in LoadInstants :
          /\ clock = [t |-> t, ms |-> 0]
          /\ storage \in {Absent, Malformed}
                \cup {JSONstringify(ts) : ts \in EarlierCollections(tz, t)}
                \cup OtherContents(tz, t)
          /\ currentDate = t
    /\ writable \in BOOLEAN
    /\ page = "loading"
    /\ tasks = <<>>
    /\ form = InitialForm
    /\ formError = ""
    /\ taskList = <<>>
    /\ dateDisplay = NoDate
    /\ stats = [total |-> 0, assigned |-> 0, inProgress |-> 0, completed |-> 0]
    /\ RemoteIdle
    /\ SessionIdle

SpecLoad == InitLoad /\ [][NextView]_vars

\* ------------------------------------------------------------------------
\* Optional remote submission
\* ------------------------------------------------------------------------
\* The notices of a submission.
NotConfigured == "API endpoint not configured"

Submitted == "Tasks submitted successfully!"

SubmitFailed == "Submission failed"

\* "Submit Tasks for Today": with the placeholder endpoint nothing is sent;
\* otherwise {date, timestamp, tasks} is POSTed and the endpoint accepts it
\* or not. The outcome is shown to the user and nothing else changes.
submitTasks(accepted) ==
    /\ page = "ready"
    /\ remote' = IF endpoint = Placeholder THEN NotConfigured
                 ELSE IF accepted THEN Submitted ELSE SubmitFailed
    /\ UNCHANGED <<endpoint, trackerVars, authVars, pageVars>>

\* The tracker opened with the endpoint as shipped or with a configured one.
InitRemote ==
    /\ tz \in TimeZones
    /\ \E t \in LoadInstants :
          /\ clock = [t |-> t, ms |-> 0]
          /\ \E env \in Environments(tz, t) :
                /\ storage = env.slot
                /\ writable = env.writable
          /\ currentDate = t
    /\ page = "loading"
    /\ tasks = <<>>
    /\ form = InitialForm
    /\ formError = ""
    /\ taskList = <<>>
    /\ dateDisplay = NoDate
    /\ stats = [total |-> 0, assigned |-> 0, inProgress |-> 0, completed |-> 0]
    /\ endpoint \in Endpoints
    /\ remote = NoSubmission
    /\ SessionIdle

\* Day tasks created, updated, deleted, browsed and submitted.
NextRemote ==
    \/ Construct
    \/ handlePeriodChange("day")
    \/ handleCreateTask("a", "Chores", setupDateInput(clock))
    \/ ItemEvents
    \/ NavEvents
    \/ \E accepted \in BOOLEAN : submitTasks(accepted)

SpecRemote == InitRemote /\ [][NextRemote]_vars

\* ------------------------------------------------------------------------
\* Session: tokens, their storage and the identity provider
\* ------------------------------------------------------------------------
\* The value of a function that returns without a return statement.
Undefined == [kind |-> "undefined"]

\* The ID tokens the provider issues: a JWT of three parts with its decoded
\* payload, and text that is not a JWT.
IdTokens ==
    {[parts |-> 3,
      payload |-> [email |-> "ann@example.org", name |-> "", sub |-> "u1",
                   picture |-> "", email_verified |-> FALSE]],
     [parts |-> 2, payload |-> Null]}

\* Lifetimes of an access token in seconds: five and seven minutes.
Lifetimes == {300, 420}

\* extractUserFromToken: null when the token does not decode.
extractUserFromToken(idToken) ==
    IF idToken.parts # 3 THEN Null
    ELSE LET payload == idToken.payload
         IN  [email |-> payload.email,
              name |-> IF payload.name # "" \/ payload.email_verified = TRUE
                       THEN payload.email ELSE "User",
              picture |-> payload.picture,
              sub |-> payload.sub,
              emailVerified |-> payload.email_verified]

\* areTokensValid, with Date.now() = now.
areTokensValid(tk, now) ==
    IF tk = Null THEN FALSE
    ELSE IF tk.expiresIn = 0 \/ tk.timestamp = 0 THEN FALSE
    ELSE LET expirationTime == tk.timestamp + (tk.expiresIn * 1000)
             bufferTime == 5 * 60 * 1000
         IN  now < expirationTime - bufferTime

\* The token bundle built by exchangeCodeForTokens from the response of the
\* token endpoint.
exchangeCodeForTokens(data, now) ==
    [accessToken |-> data.access_token, idToken |-> data.id_token,
     refreshToken |-> data.refresh_token, expiresIn |-> data.expires_in,
     timestamp |-> now]

\* The responses of the token endpoint to an authorization code.
TokenResponses ==
    {[ok |-> TRUE, access_token |-> "at", id_token |-> idt,
      refresh_token |-> "rt", expires_in |-> life] :
        idt \in IdTokens, life \in Lifetimes}
    \cup {[ok |-> FALSE]}

\* The sessions a signed-in provider user can carry: none, one that is not
\* valid, and valid ones whose access token expires at exp (seconds since
\* the epoch).
NoSession == [kind |-> "none"]

Sessions(now) ==
    {NoSession, [kind |-> "session", valid |-> FALSE]}
    \cup {[kind |-> "session", valid |-> TRUE, accessToken |-> "at",
           idToken |-> idt, refreshToken |-> "rt",
           exp |-> (now \div 1000) + life] :
             idt \in IdTokens, life \in Lifetimes}

\* getUserTokens: null unless the user has a valid session.
getUserTokens(session, now) ==
    IF session.kind = "session" /\ session.valid
    THEN [accessToken |-> session.accessToken, idToken |-> session.idToken,
          refreshToken |-> session.refreshToken, expiresIn |-> session.exp,
          timestamp |-> now]
    ELSE Null

\* JSON.stringify(tokens) and JSON.parse of it: one object, its members in
\* insertion order.
TokensToJSON(tk) ==
    << <<"accessToken", "string", tk.accessToken>>,
       <<"idToken", "string", tk.idToken>>,
       <<"refreshToken", "string", tk.refreshToken>>,
       <<"expiresIn", "number", tk.expiresIn>>,
       <<"timestamp", "number", tk.timestamp>> >>

TokensFromJSON(obj) ==
    [accessToken |-> Member(obj, "accessToken"),
     idToken |-> Member(obj, "idToken"),
     refreshToken |-> Member(obj, "refreshToken"),
     expiresIn |-> Member(obj, "expiresIn"),
     timestamp |-> Member(obj, "timestamp")]

\* storeTokens: a throwing setItem is caught and logged.
storeTokens(tk, old, ok) ==
    IF ok THEN [kind |-> "json", text |-> TokensToJSON(tk)] ELSE old

\* getStoredTokens: null for an absent slot and for text that does not parse.
getStoredTokens(slot) ==
    IF slot.kind = "json" THEN TokensFromJSON(slot.text) ELSE Null

\* clearStoredTokens
clearStoredTokens(slot) == Absent

\* getAuthHeader
getAuthHeader(tk) ==
    IF tk = Null THEN Null
    ELSE IF tk.accessToken = "" THEN Null
    ELSE [Authorization |-> <<"Bearer", tk.accessToken>>]

\* The errors the provider client throws.
ProviderErrors ==
    {[code |-> "NotAuthorizedException", message |-> "Incorrect password."],
     [code |-> "NetworkError", message |-> ""]}

\* The table of getErrorMessage, for the codes of the modelled errors.
errorMessages ==
    [c \in {"NotAuthorizedException"} |-> "Invalid email or password."]

getErrorMessage(error) ==
    IF error.code # "" /\ error.code \in DOMAIN errorMessages
    THEN errorMessages[error.code]
    ELSE IF error.message # "" THEN error.message
    ELSE "An error occurred. Please try again."

\* The {success, message} objects the operations return.
Success(message) ==
    [kind |-> "object", success |-> TRUE, message |-> message,
     challengeName |-> ""]

Failure(message) ==
    [kind |-> "object", success |-> FALSE, message |-> message,
     challengeName |-> ""]

\* App.updateUIState: the sections and the button for an auth status.
updateUIState(authenticated) ==
    [protected |-> authenticated, welcome |-> ~authenticated,
     error |-> FALSE,
     authBtn |-> IF authenticated THEN "Logout" ELSE "Login"]

\* showError: the error section replaces the other two.
showError(sections) ==
    [sections EXCEPT !.error = TRUE, !.welcome = FALSE, !.protected = FALSE]

\* A session left in the slot by an earlier visit, stored at the given time.
StoredSession(at, life) ==
    [kind |-> "json",
     text |-> TokensToJSON([accessToken |-> "at",
                            idToken |-> CHOOSE t \in IdTokens : t.parts = 3,
                            refreshToken |-> "rt", expiresIn |-> life,
                            timestamp |-> at])]

\* ------------------------------------------------------------------------
\* Session: operations of AuthManager and App
\* ------------------------------------------------------------------------
Call(op) == [op |-> op]

\* The part of an async operation before its first await of the provider:
\* the request is sent and the operation is suspended.
Begin(op) ==
    /\ authLoaded
    /\ windowApp
    /\ Call(op) \notin pending
    /\ Cardinality(pending) < MaxInFlight
    /\ pending' = pending \cup {Call(op)}
    /\ UNCHANGED <<authLoaded, isAuthenticated, user, tokens, authSlot, result,
                   dispatched, sessionClock, urlCode, ui>>
    /\ UNCHANGED <<trackerVars, remoteVars, pageVars>>

\* An operation resumes: it leaves the pending set and its promise resolves
\* to value after it dispatched n 'authStateChanged' events.
Resolve(op, value, n) ==
    /\ Call(op) \in pending
    /\ pending' = pending \ {Call(op)}
    /\ result' = [op |-> op, value |-> value]
    /\ dispatched' = n

\* this.tokens, this.isAuthenticated and this.user set from a token bundle,
\* the bundle stored and the event dispatched, the App listening to it.
SignedIn(tk) ==
    /\ tokens' = tk
    /\ isAuthenticated' = TRUE
    /\ user' = extractUserFromToken(tk.idToken)
    /\ authSlot' = storeTokens(tk, authSlot, writable)
    /\ ui' = IF windowApp THEN updateUIState(TRUE) ELSE ui

SessionUntouched == UNCHANGED <<isAuthenticated, user, tokens, authSlot, ui>>

\* updatePageAuthState: the two elements it writes.
updatePageAuthState(sections, authenticated) ==
    [sections |-> [sections EXCEPT !.protected = authenticated],
     loginRequired |-> ~authenticated]

\* updatePageAuthState as the listener setupPageAuthentication installed: it
\* runs after the App's on every dispatched 'authStateChanged' and writes
\* #protected-section as updateUIState just did.
PageAuthListener ==
    loginRequired' =
        IF pageAuth = "installed" /\ dispatched' > 0
        THEN updatePageAuthState(ui', isAuthenticated').loginRequired
        ELSE loginRequired

\* No handler of the App or of the page-auth script continues in the step.
AppUntouched ==
    UNCHANGED <<windowAuthManager, windowApp, pageAuth, retries, modal,
                currentAuthMode, newPasswordUser, resetPasswordEmail>>

\* The page is left (reload, navigation): its AuthManager and App, and the
\* operations they were waiting for, are gone.
Unloaded ==
    /\ authLoaded' = FALSE
    /\ pending' = {}
    /\ isAuthenticated' = FALSE
    /\ user' = Null
    /\ tokens' = Null
    /\ result' = NoResult
    /\ dispatched' = 0
    /\ ui' = NoSections
    /\ windowApp' = FALSE
    /\ pageAuth' = IF pageAuth = "absent" THEN "absent" ELSE "notrun"
    /\ retries' = 0
    /\ loginRequired' = FALSE
    /\ modal' = FALSE
    /\ currentAuthMode' = "signin"
    /\ newPasswordUser' = Null
    /\ resetPasswordEmail' = Null
    /\ UNCHANGED windowAuthManager

leavePage ==
    /\ authLoaded
    /\ Unloaded
    /\ UNCHANGED <<authSlot, sessionClock, urlCode>>
    /\ UNCHANGED <<trackerVars, remoteVars>>

\* new AuthManager() and new App() on a page load: initializeAuth up to its
\* first await, then App.init, which throws in updateUIState when
\* window.authManager is undefined, before window.app is assigned.
initializeAuth ==
    /\ ~authLoaded
    /\ authLoaded' = TRUE
    /\ IF urlCode # ""
       THEN /\ pending' = {Call("handleOAuthCallback")}
            /\ dispatched' = 0
            /\ UNCHANGED <<isAuthenticated, user, tokens, authSlot>>
       ELSE LET storedTokens == getStoredTokens(authSlot)
            IN  /\ pending' = {}
                /\ IF storedTokens # Null
                      /\ areTokensValid(storedTokens, sessionClock)
                   THEN /\ tokens' = storedTokens
                        /\ isAuthenticated' = TRUE
                        /\ user' = extractUserFromToken(storedTokens.idToken)
                        /\ dispatched' = 1
                        /\ UNCHANGED authSlot
                   ELSE /\ UNCHANGED <<isAuthenticated, user, tokens>>
                        /\ dispatched' = 0
                        /\ authSlot' = IF storedTokens # Null
                                       THEN clearStoredTokens(authSlot)
                                       ELSE authSlot
    /\ result' = NoResult
    /\ windowApp' = windowAuthManager
    /\ ui' = IF windowAuthManager THEN updateUIState(isAuthenticated') ELSE ui
    /\ UNCHANGED <<sessionClock, urlCode>>
    /\ UNCHANGED <<windowAuthManager, pageAuth, retries, loginRequired, modal,
                   currentAuthMode, newPasswordUser, resetPasswordEmail>>
    /\ UNCHANGED <<trackerVars, remoteVars>>

\* handleOAuthCallback after the token endpoint has answered.
handleOAuthCallbackResumes(response) ==
    /\ IF response.ok
       THEN /\ SignedIn(exchangeCodeForTokens(response, sessionClock))
            /\ urlCode' = ""
            /\ Resolve("handleOAuthCallback", Undefined, 1)
       ELSE /\ ui' = showError(ui)
            /\ UNCHANGED <<isAuthenticated, user, tokens, authSlot, urlCode>>
            /\ Resolve("handleOAuthCallback", Undefined, 0)
    /\ UNCHANGED <<authLoaded, sessionClock>>
    /\ PageAuthListener
    /\ AppUntouched
    /\ UNCHANGED <<trackerVars, remoteVars>>

\* loginWithGoogle: the browser goes to the hosted login, which redirects
\* back to the page with an authorization code.
loginWithGoogle ==
    /\ authLoaded
    /\ windowApp
    /\ urlCode = ""
    /\ urlCode' = "code"
    /\ Unloaded
    /\ UNCHANGED <<authSlot, sessionClock>>
    /\ UNCHANGED <<trackerVars, remoteVars>>

signUpWithEmail == Begin("signUpWithEmail")

confirmSignUp == Begin("confirmSignUp")

forgotPassword == Begin("forgotPassword")

confirmForgotPassword == Begin("confirmForgotPassword")

\* The four operations that only report the provider's answer.
ReportingOperations ==
    {"signUpWithEmail", "confirmSignUp", "forgotPassword",
     "confirmForgotPassword"}

SuccessMessages ==
    [op \in ReportingOperations |->
        CASE op = "signUpWithEmail" ->
                "Sign up successful! Please check your email for verification code."
          [] op = "confirmSignUp" -> "Email verified! You can now log in."
          [] op = "forgotPassword" ->
                "Check your email for password reset code."
          [] op = "confirmForgotPassword" ->
                "Password reset successful! You can now log in."]

\* One of them resumes: the provider call returned (error = Null) or threw.
ReportingOperationReturns(op, error) ==
    /\ Resolve(op, IF error = Null THEN Success(SuccessMessages[op])
                   ELSE Failure(getErrorMessage(error)), 0)
    /\ SessionUntouched
    /\ UNCHANGED <<authLoaded, sessionClock, urlCode>>

ReportingOperationResumes(op, error) ==
    /\ ReportingOperationReturns(op, error)
    /\ PageAuthListener
    /\ AppUntouched
    /\ UNCHANGED <<trackerVars, remoteVars>>

signInWithEmail == Begin("signInWithEmail")

\* The answers of Auth.signIn and Auth.completeNewPassword.
SignInAnswers(now) ==
    {[kind |-> "error", error |-> e] : e \in ProviderErrors}
    \cup {[kind |-> "user", challengeName |-> "NEW_PASSWORD_REQUIRED",
           session |-> NoSession]}
    \cup {[kind |-> "user", challengeName |-> "", session |-> s] :
             s \in Sessions(now)}

\* The code shared by signInWithEmail and completeNewPasswordChallenge after
\* the provider returned a user: the tokens are taken from the user's session.
SignInWithUser(op, answer, message) ==
    LET tk == getUserTokens(answer.session, sessionClock)
    IN  IF tk # Null
        THEN /\ SignedIn(tk)
             /\ Resolve(op, Success(message), 1)
        ELSE /\ SessionUntouched
             /\ Resolve(op, Undefined, 0)

\* signInWithEmail after Auth.signIn has answered.
signInWithEmailReturns(answer) ==
    /\ IF answer.kind = "error"
       THEN /\ SessionUntouched
            /\ Resolve("signInWithEmail",
                       Failure(getErrorMessage(answer.error)), 0)
       ELSE IF answer.challengeName = "NEW_PASSWORD_REQUIRED"
       THEN /\ SessionUntouched
            /\ Resolve("signInWithEmail",
                       [Failure("New password required") EXCEPT
                           !.challengeName = "NEW_PASSWORD_REQUIRED"], 0)
       ELSE SignInWithUser("signInWithEmail", answer, "Login successful!")
    /\ UNCHANGED <<authLoaded, sessionClock, urlCode>>

signInWithEmailResumes(answer) ==
    /\ signInWithEmailReturns(answer)
    /\ PageAuthListener
    /\ AppUntouched
    /\ UNCHANGED <<trackerVars, remoteVars>>

completeNewPasswordChallenge == Begin("completeNewPasswordChallenge")

\* completeNewPasswordChallenge after Auth.completeNewPassword has answered.
completeNewPasswordChallengeReturns(answer) ==
    /\ IF answer.kind = "error"
       THEN /\ SessionUntouched
            /\ Resolve("completeNewPasswordChallenge",
                       Failure(getErrorMessage(answer.error)), 0)
       ELSE SignInWithUser("completeNewPasswordChallenge", answer,
                           "Password updated and logged in!")
    /\ UNCHANGED <<authLoaded, sessionClock, urlCode>>

completeNewPasswordChallengeResumes(answer) ==
    /\ completeNewPasswordChallengeReturns(answer)
    /\ PageAuthListener
    /\ AppUntouched
    /\ UNCHANGED <<trackerVars, remoteVars>>

logout == Begin("logout")

\* logoutResumes without the dispatch of 'authStateChanged': no listener
\* runs and the sections stay as they were.
logoutResumesWithoutDispatch(signedOut) ==
    /\ authSlot' = clearStoredTokens(authSlot)
    /\ isAuthenticated' = FALSE
    /\ user' = Null
    /\ tokens' = IF signedOut THEN Null ELSE tokens
    /\ Resolve("logout", Undefined, 0)
    /\ UNCHANGED <<authLoaded, sessionClock, urlCode, ui>>
    /\ PageAuthListener
    /\ AppUntouched
    /\ UNCHANGED <<trackerVars, remoteVars>>

\* logout after Auth.signOut has returned (signedOut) or thrown.
logoutResumes(signedOut) ==
    /\ authSlot' = clearStoredTokens(authSlot)
    /\ isAuthenticated' = FALSE
    /\ user' = Null
    /\ tokens' = IF signedOut THEN Null ELSE tokens
    /\ ui' = updateUIState(FALSE)
    /\ Resolve("logout", Undefined, 1)
    /\ UNCHANGED <<authLoaded, sessionClock, urlCode>>
    /\ PageAuthListener
    /\ AppUntouched
    /\ UNCHANGED <<trackerVars, remoteVars>>

\* The callback of setInterval in App.init, a minute after the last one.
PeriodicCheck ==
    /\ authLoaded
    /\ sessionClock < PageOpened + MaxMinutes * 60000
    /\ sessionClock' = sessionClock + 60000
    /\ ui' = IF windowApp THEN updateUIState(isAuthenticated) ELSE ui
    /\ UNCHANGED <<authLoaded, isAuthenticated, user, tokens, authSlot, pending,
                   result, dispatched, urlCode>>
    /\ UNCHANGED <<trackerVars, remoteVars, pageVars>>

\* App.isUserAuthenticated
isUserAuthenticated == isAuthenticated

\* ------------------------------------------------------------------------
\* Session: the page-auth script and the forms of the App
\* ------------------------------------------------------------------------
\* setupPageAuthentication, at DOMContentLoaded and from its 100 ms timer:
\* it schedules a retry unless window.app and window['authManager'] are both
\* set, and otherwise applies the page auth state and installs its listener.
setupPageAuthentication ==
    /\ pageAuth \in {"notrun", "retrying"}
    /\ retries < MaxRetries
    /\ IF windowApp /\ windowAuthManager
       THEN LET applied == updatePageAuthState(ui, isUserAuthenticated)
            IN  /\ pageAuth' = "installed"
                /\ ui' = applied.sections
                /\ loginRequired' = applied.loginRequired
                /\ UNCHANGED retries
       ELSE /\ pageAuth' = "retrying"
            /\ retries' = retries + 1
            /\ UNCHANGED <<ui, loginRequired>>
    /\ UNCHANGED <<windowAuthManager, windowApp, modal, currentAuthMode,
                   newPasswordUser, resetPasswordEmail>>
    /\ UNCHANGED <<authLoaded, isAuthenticated, user, tokens, authSlot, pending,
                   result, dispatched, sessionClock, urlCode>>
    /\ UNCHANGED <<trackerVars, remoteVars>>

\* showAuthModal, as wrapped by setupPageAuthentication once it is installed.
showAuthModal ==
    /\ windowApp
    /\ modal' = TRUE
    /\ currentAuthMode' = "signin"
    /\ IF pageAuth = "installed"
       THEN LET applied == updatePageAuthState(ui, isUserAuthenticated)
            IN  /\ ui' = applied.sections
                /\ loginRequired' = applied.loginRequired
       ELSE UNCHANGED <<ui, loginRequired>>
    /\ UNCHANGED <<windowAuthManager, windowApp, pageAuth, retries,
                   newPasswordUser, resetPasswordEmail>>
    /\ UNCHANGED <<authLoaded, isAuthenticated, user, tokens, authSlot, pending,
                   result, dispatched, sessionClock, urlCode>>
    /\ UNCHANGED <<trackerVars, remoteVars>>

closeAuthModal ==
    /\ windowApp
    /\ modal
    /\ modal' = FALSE
    /\ UNCHANGED <<windowAuthManager, windowApp, pageAuth, retries,
                   loginRequired, currentAuthMode, newPasswordUser,
                   resetPasswordEmail>>
    /\ UNCHANGED <<trackerVars, remoteVars, authVars>>

\* The modes the links of the forms switch to, and the form each link is
\* shown in.
LinkModes == {"signup", "signin", "forgot-password"}

LinkShownIn(mode) == IF mode = "signin" THEN "signup" ELSE "signin"

\* A click on #signup-link, #signin-link or #forgot-password-link.
switchAuthMode(mode) ==
    /\ windowApp
    /\ modal
    /\ currentAuthMode = LinkShownIn(mode)
    /\ currentAuthMode' = mode
    /\ UNCHANGED <<windowAuthManager, windowApp, pageAuth, retries,
                   loginRequired, modal, newPasswordUser, resetPasswordEmail>>
    /\ UNCHANGED <<trackerVars, remoteVars, authVars>>

\* The address and the reset codes typed into the forms.
Email == [kind |-> "string", text |-> "ann@example.org"]

Codes == {"", "123456"}

\* handleSignIn up to its await.
handleSignIn ==
    /\ modal
    /\ currentAuthMode = "signin"
    /\ Begin("signInWithEmail")

\* handleSignIn after signInWithEmail has returned: a result without
\* success and challenge, and the TypeError on an undefined result, only
\* write the error text of the form.
handleSignInResumes(answer) ==
    /\ signInWithEmailReturns(answer)
    /\ PageAuthListener
    /\ LET value == result'.value
       IN  IF value.kind = "object" /\ value.success
           THEN /\ modal' = FALSE
                /\ UNCHANGED <<currentAuthMode, newPasswordUser>>
           ELSE IF value.kind = "object"
                   /\ value.challengeName = "NEW_PASSWORD_REQUIRED"
           THEN /\ newPasswordUser' = answer
                /\ currentAuthMode' = "reset-password"
                /\ UNCHANGED modal
           ELSE UNCHANGED <<modal, currentAuthMode, newPasswordUser>>
    /\ UNCHANGED <<windowAuthManager, windowApp, pageAuth, retries,
                   resetPasswordEmail>>
    /\ UNCHANGED <<trackerVars, remoteVars>>

handleForgotPassword ==
    /\ modal
    /\ currentAuthMode = "forgot-password"
    /\ Begin("forgotPassword")

handleForgotPasswordResumes(error) ==
    /\ ReportingOperationReturns("forgotPassword", error)
    /\ PageAuthListener
    /\ IF error = Null
       THEN /\ resetPasswordEmail' = Email
            /\ currentAuthMode' = "reset-password"
       ELSE UNCHANGED <<resetPasswordEmail, currentAuthMode>>
    /\ UNCHANGED <<windowAuthManager, windowApp, pageAuth, retries, modal,
                   newPasswordUser>>
    /\ UNCHANGED <<trackerVars, remoteVars>>

\* handleResetPassword up to its await, the two passwords typed being equal
\* and long enough.
handleResetPassword(code) ==
    /\ modal
    /\ currentAuthMode = "reset-password"
    /\ IF newPasswordUser # Null
       THEN Begin("completeNewPasswordChallenge")
       ELSE IF resetPasswordEmail # Null /\ code # ""
       THEN Begin("confirmForgotPassword")
       ELSE UNCHANGED vars

\* handleResetPassword after completeNewPasswordChallenge has returned.
handleResetPasswordChallengeResumes(answer) ==
    /\ completeNewPasswordChallengeReturns(answer)
    /\ PageAuthListener
    /\ LET value == result'.value
       IN  IF value.kind = "object" /\ value.success
           THEN /\ newPasswordUser' = Null
                /\ modal' = FALSE
           ELSE UNCHANGED <<newPasswordUser, modal>>
    /\ UNCHANGED <<windowAuthManager, windowApp, pageAuth, retries,
                   currentAuthMode, resetPasswordEmail>>
    /\ UNCHANGED <<trackerVars, remoteVars>>

\* handleResetPassword after confirmForgotPassword has returned.
handleResetPasswordConfirmResumes(error) ==
    /\ ReportingOperationReturns("confirmForgotPassword", error)
    /\ PageAuthListener
    /\ IF error = Null
       THEN /\ resetPasswordEmail' = Null
            /\ currentAuthMode' = "signin"
       ELSE UNCHANGED <<resetPasswordEmail, currentAuthMode>>
    /\ UNCHANGED <<windowAuthManager, windowApp, pageAuth, retries, modal,
                   newPasswordUser>>
    /\ UNCHANGED <<trackerVars, remoteVars>>

\* The answers of the API to an authenticated request.
Unauthorized == [ok |-> FALSE, status |-> 401]

Responses ==
    {[ok |-> TRUE, status |-> 200], Unauthorized, [ok |-> FALSE, status |-> 500]}

\* What the promise of makeAuthenticatedRequest settles to.
Fulfilled == [kind |-> "json"]

Rejected(message) == [kind |-> "rejected", message |-> message]

\* makeAuthenticatedRequest up to its fetch: it throws before sending when
\* the user is not authenticated.
makeAuthenticatedRequest ==
    IF isAuthenticated
    THEN Begin("makeAuthenticatedRequest")
    ELSE /\ authLoaded
         /\ windowApp
         /\ result' = [op |-> "makeAuthenticatedRequest",
                       value |-> Rejected("User is not authenticated")]
         /\ dispatched' = 0
         /\ UNCHANGED <<authLoaded, isAuthenticated, user, tokens, authSlot,
                        pending, sessionClock, urlCode, ui>>
         /\ UNCHANGED <<trackerVars, remoteVars, pageVars>>

\* makeAuthenticatedRequest after the fetch has answered. On 401 it calls
\* handleLogout without awaiting it: the user is asked to confirm, and
\* logout is started, up to its await of Auth.signOut, only when they do.
makeAuthenticatedRequestResumes(response, confirmed) ==
    /\ Call("makeAuthenticatedRequest") \in pending
    /\ LET others == pending \ {Call("makeAuthenticatedRequest")}
       IN  pending' = IF response.status = 401 /\ confirmed
                      THEN others \cup {Call("logout")} ELSE others
    /\ result' =
          [op |-> "makeAuthenticatedRequest",
           value |-> IF response.ok THEN Fulfilled
                     ELSE IF response.status = 401
                     THEN Rejected("Session expired. Please login again.")
                     ELSE Rejected("API request failed")]
    /\ dispatched' = 0
    /\ SessionUntouched
    /\ UNCHANGED <<authLoaded, sessionClock, urlCode>>
    /\ UNCHANGED <<trackerVars, remoteVars, pageVars>>

\* ------------------------------------------------------------------------
\* Specification of a page with the App and the page-auth script
\* ------------------------------------------------------------------------
\* The page is opened with nothing stored or with the session of a visit
\* five minutes before; none of the scripts in src assigns
\* window.authManager, so it is set only on a page that does so itself.
InitApp ==
    /\ tz = UTCZone
    /\ \E t \in LoadInstants : clock = [t |-> t, ms |-> 0] /\ currentDate = t
    /\ storage = Absent
    /\ writable = TRUE
    /\ page = "loading"
    /\ tasks = <<>>
    /\ form = InitialForm
    /\ formError = ""
    /\ taskList = <<>>
    /\ dateDisplay = NoDate
    /\ stats = [total |-> 0, assigned |-> 0, inProgress |-> 0, completed |-> 0]
    /\ RemoteIdle
    /\ authLoaded = FALSE
    /\ isAuthenticated = FALSE
    /\ user = Null
    /\ tokens = Null
    /\ authSlot \in {Absent, StoredSession(PageOpened - 300000, 720)}
    /\ pending = {}
    /\ result = NoResult
    /\ dispatched = 0
    /\ sessionClock = PageOpened
    /\ urlCode = ""
    /\ ui = NoSections
    /\ windowAuthManager \in BOOLEAN
    /\ windowApp = FALSE
    /\ pageAuth = "notrun"
    /\ retries = 0
    /\ loginRequired = FALSE
    /\ modal = FALSE
    /\ currentAuthMode = "signin"
    /\ newPasswordUser = Null
    /\ resetPasswordEmail = Null

\* The answers of the provider used on this page: an error, the challenge,
\* and a session of seven minutes.
AppSignInAnswers(now) ==
    {answer \in SignInAnswers(now) :
        /\ answer.kind = "error" => answer.error.code = "NotAuthorizedException"
        /\ (answer.kind = "user" /\ answer.session # NoSession) =>
              /\ answer.session.valid
              /\ answer.session.idToken.parts = 3
              /\ answer.session.exp = (now \div 1000) + 420}

NextApp ==
    \/ initializeAuth
    \/ leavePage
    \/ setupPageAuthentication
    \/ showAuthModal
    \/ closeAuthModal
    \/ \E mode \in LinkModes : switchAuthMode(mode)
    \/ handleSignIn
    \/ \E answer \in AppSignInAnswers(sessionClock) : handleSignInResumes(answer)
    \/ handleForgotPassword
    \/ \E error \in {Null, CHOOSE e \in ProviderErrors : e.code = "NetworkError"} :
          handleForgotPasswordResumes(error)
    \/ \E code \in Codes : handleResetPassword(code)
    \/ \E answer \in AppSignInAnswers(sessionClock) :
          handleResetPasswordChallengeResumes(answer)
    \/ \E error \in {Null, CHOOSE e \in ProviderErrors : e.code = "NetworkError"} :
          handleResetPasswordConfirmResumes(error)
    \/ logout
    \/ \E signedOut \in BOOLEAN : logoutResumes(signedOut)
    \/ makeAuthenticatedRequest
    \/ \E response \in Responses, confirmed \in BOOLEAN :
          makeAuthenticatedRequestResumes(response, confirmed)
    \/ PeriodicCheck

SpecApp == InitApp /\ [][NextApp]_vars

\* ------------------------------------------------------------------------
\* Specification of the session
\* ------------------------------------------------------------------------
\* The browsers the page with the auth script is opened in: nothing stored,
\* text that does not parse, or the session of a visit five minutes before.
InitAuth ==
    /\ tz = UTCZone
    /\ \E t \in LoadInstants : clock = [t |-> t, ms |-> 0] /\ currentDate = t
    /\ storage = Absent
    /\ writable \in BOOLEAN
    /\ page = "loading"
    /\ tasks = <<>>
    /\ form = InitialForm
    /\ formError = ""
    /\ taskList = <<>>
    /\ dateDisplay = NoDate
    /\ stats = [total |-> 0, assigned |-> 0, inProgress |-> 0, completed |-> 0]
    /\ RemoteIdle
    /\ authLoaded = FALSE
    /\ isAuthenticated = FALSE
    /\ user = Null
    /\ tokens = Null
    /\ authSlot \in {Absent, Malformed}
          \cup {StoredSession(PageOpened - 300000, life) : life \in {600, 720}}
    /\ pending = {}
    /\ result = NoResult
    /\ dispatched = 0
    /\ sessionClock = PageOpened
    /\ urlCode = ""
    /\ ui = NoSections
    /\ PageIdle

NextAuth ==
    \/ initializeAuth
    \/ leavePage
    \/ loginWithGoogle
    \/ \E response \in TokenResponses : handleOAuthCallbackResumes(response)
    \/ signUpWithEmail
    \/ confirmSignUp
    \/ forgotPassword
    \/ confirmForgotPassword
    \/ \E op \in ReportingOperations, error \in ProviderErrors \cup {Null} :
          ReportingOperationResumes(op, error)
    \/ signInWithEmail
    \/ \E answer \in SignInAnswers(sessionClock) :
          signInWithEmailResumes(answer)
    \/ completeNewPasswordChallenge
    \/ \E answer \in SignInAnswers(sessionClock) :
          completeNewPasswordChallengeResumes(answer)
    \/ logout
    \/ \E signedOut \in BOOLEAN : logoutResumes(signedOut)
    \/ PeriodicCheck

SpecAuth == InitAuth /\ [][NextAuth]_vars

\* ------------------------------------------------------------------------
\* Properties
\* ------------------------------------------------------------------------
DayNumber(s) == MakeDay(s[1], s[2], s[3])

TodayKey == ISODate(currentDate)

\* The number of dates a period covers, by its definition.
ExpectedLength(period, startDate, endDate) ==
    IF period = "day" THEN 1
    ELSE IF period = "week" THEN 7
    ELSE IF period = "month"
         THEN DaysInMonth(startDate[1], startDate[2]) - startDate[3] + 1
    ELSE DayNumber(endDate) - DayNumber(startDate) + 1

\* C1: every task's dates are non-empty, start at startDate, advance by
\* exactly one calendar day per entry, and number 1 for a day, 7 for a week,
\* daysInMonth - dayOfMonth + 1 for a month and endDate - startDate + 1 for a
\* custom range.
C1_DatesContract ==
    \A i \in 1..Len(tasks) :
        LET t == tasks[i]
        IN  /\ Len(t.dates) >= 1
            /\ Len(t.dates) = ExpectedLength(t.period, t.startDate, t.endDate)
            /\ t.dates[1] = t.startDate
            /\ \A k \in 1..(Len(t.dates) - 1) :
                  DayNumber(t.dates[k + 1]) = DayNumber(t.dates[k]) + 1

\* C2: the dates of a task depend only on its period, start date and end
\* date: expanding them in any other host time zone gives the same sequence.
C2_SameDatesInEveryZone ==
    \A i \in 1..Len(tasks) : \A z \in TimeZones :
        LET t == tasks[i]
        IN  generateTaskDates(z, t.period, t.startDate,
                IF t.period = "custom" THEN t.endDate ELSE NoDate) = t.dates

\* A submission the validation has to refuse.
InvalidSubmission(name, category, period, startDate, endDate) ==
    \/ name = "" \/ category = "" \/ period = "" \/ startDate = NoDate
    \/ period = "custom" /\ endDate = NoDate
    \/ period = "custom" /\ endDate # NoDate /\ startDate # NoDate
          /\ DayNumber(endDate) < DayNumber(startDate)

\* C3: a submission that fails validation leaves the task collection and the
\* persisted slot unchanged and sets an error message.
C3_RejectedSubmitAborts ==
    [][\A n \in Names, c \in Categories, s \in StartChoices :
          (/\ InvalidSubmission(n, c, form.period, s, form.endDate)
           /\ handleCreateTask(n, c, s))
          => (tasks' = tasks /\ storage' = storage /\ formError' # "")]_vars

C3_Witness ==
    /\ formError = "End date must be after start date."
    /\ form.period = "custom"
    /\ Len(tasks) >= 1

DueOn(t, d) == \E k \in 1..Len(t.dates) : t.dates[k] = d

ItemFields(t) == <<t.id, t.name, t.category, t.status>>

\* C4: the rendered list holds exactly the tasks whose dates contain the
\* reference date, in collection order; a task of one day is due on its
\* start date and on no other date.
C4_ListShowsExactlyDueTasks ==
    page = "ready" =>
        LET due == SelectSeq(tasks, LAMBDA t : DueOn(t, TodayKey))
        IN  /\ [i \in 1..Len(taskList) |-> ItemFields(taskList[i])]
                 = [i \in 1..Len(due) |-> ItemFields(due[i])]
            /\ \A i \in 1..Len(tasks) :
                  tasks[i].period = "day" =>
                      (DueOn(tasks[i], TodayKey)
                          <=> TodayKey = tasks[i].startDate)

C4_Witness ==
    /\ page = "ready"
    /\ Len(taskList) >= 1
    /\ Len(taskList) < Len(tasks)
    /\ \E i \in 1..Len(tasks) :
          tasks[i].period = "day" /\ TodayKey # tasks[i].startDate

\* C5: the three status counters add up to the total.
C5_CountsSumToTotal ==
    stats.assigned + stats.inProgress + stats.completed = stats.total

\* C6: nextDate moves the reference date one calendar day forward,
\* previousDate one calendar day back, and each undoes the other.
C6_NavMovesOneDay ==
    [][/\ nextDate =>
            /\ DayNumber(ISODate(currentDate')) = DayNumber(TodayKey) + 1
            /\ ISODate(setDate(tz, currentDate',
                               getDate(tz, currentDate') - 1)) = TodayKey
       /\ previousDate =>
            /\ DayNumber(ISODate(currentDate')) = DayNumber(TodayKey) - 1
            /\ ISODate(setDate(tz, currentDate',
                               getDate(tz, currentDate') + 1)) = TodayKey]_vars

\* C7: navigation changes the reference date and the rendered view only: the
\* task collection, the persisted slot, the counters and the form stay.
C7_NavigationFrame ==
    [][(nextDate \/ previousDate) =>
          /\ tasks' = tasks
          /\ storage' = storage
          /\ UNCHANGED <<page, writable, form, formError, stats>>]_vars

C7_Witness ==
    /\ page = "ready"
    /\ currentDate # clock.t
    /\ Len(tasks) >= 2
    /\ Len(taskList) < Len(tasks)

C9_TolerantLoad ==
    [][(Construct /\ storage.kind \in {"absent", "malformed"}) =>
          /\ tasks' = <<>>
          /\ page' = "ready"
          /\ taskList' = <<>>
          /\ dateDisplay' # NoDate
          /\ stats' = [total |-> 0, assigned |-> 0, inProgress |-> 0,
                       completed |-> 0]]_vars

C9_Witness ==
    /\ page = "ready"
    /\ storage = Malformed
    /\ tasks = <<>>
    /\ dateDisplay # NoDate

C11_IdsUniqueAndIncreasing ==
    \A i, j \in 1..Len(tasks) : i < j => tasks[i].id < tasks[j].id

\* C12: every task has one of the three status values (each is created as
\* Assigned and the status select offers the three values from any status).
C12_StatusIsOneOfThree ==
    \A i \in 1..Len(tasks) : tasks[i].status \in Statuses

\* The fields of a task other than its status.
Identity(t) == <<t.id, t.name, t.category, t.period, t.startDate, t.endDate,
                 t.createdAt, t.dates>>

\* C13: updateTaskStatus(id, s) keeps the length and order of the collection,
\* changes at most one task, a task of that id, and of that task only the
\* status, which becomes s; and a step that is neither a creation nor a load
\* leaves every remaining task with the id and dates it had.
C13_StatusUpdateFrame ==
    [][/\ \A id \in RenderedIds, s \in Statuses :
              updateTaskStatus(id, s) =>
                  /\ Len(tasks') = Len(tasks)
                  /\ \A i \in 1..Len(tasks) :
                        /\ Identity(tasks'[i]) = Identity(tasks[i])
                        /\ tasks'[i] # tasks[i] =>
                              tasks[i].id = id /\ tasks'[i].status = s
                  /\ Cardinality({i \in 1..Len(tasks) : tasks'[i] # tasks[i]})
                        <= 1
                  /\ \E i \in 1..Len(tasks) :
                        tasks[i].id = id /\ tasks'[i].status = s
       /\ (~Construct /\ Len(tasks') <= Len(tasks)) =>
              \A i \in 1..Len(tasks') : \E j \in 1..Len(tasks) :
                  /\ tasks'[i].id = tasks[j].id
                  /\ tasks'[i].dates = tasks[j].dates]_vars

C13_Witness ==
    /\ page = "ready"
    /\ Len(tasks) >= 2
    /\ tasks[1].id = tasks[2].id
    /\ tasks[1].status = "In-progress"
    /\ tasks[2].status = "Assigned"

AuthOperations ==
    ReportingOperations
    \cup {"signInWithEmail", "completeNewPasswordChallenge", "logout"}

\* C15: every auth operation that has completed resolved to a
\* {success, message} object, never to undefined.
C15_OperationsReturnResult ==
    result.op \in AuthOperations =>
        /\ result.value.kind = "object"
        /\ result.value.success \in BOOLEAN

\* C16: a step of the loaded page that changes isAuthenticated dispatches
\* exactly one 'authStateChanged' event, and user and tokens are updated with
\* it: set from the tokens when it becomes true, null when it becomes false.
C16_OneDispatchAfterUpdate ==
    [][(authLoaded' /\ isAuthenticated' # isAuthenticated) =>
          /\ dispatched' = 1
          /\ IF isAuthenticated'
             THEN /\ tokens' # Null
                  /\ user' = extractUserFromToken(tokens'.idToken)
             ELSE /\ tokens' = Null
                  /\ user' = Null]_vars

\* C19: when logout is the operation that completed last, the session is
\* cleared: not authenticated, no user, no tokens, no stored tokens and no
\* authorization header.
C19_LogoutClearsSession ==
    result.op = "logout" =>
        /\ ~isAuthenticated
        /\ user = Null
        /\ tokens = Null
        /\ authSlot = Absent
        /\ getAuthHeader(tokens) = Null

\* C20: whenever isUserAuthenticated() is true, the held tokens are valid at
\* the current time.
C20_AuthenticatedOnlyWhileValid ==
    isUserAuthenticated => areTokensValid(tokens, sessionClock)

C18_StatsDescribeCurrentDate ==
    page = "ready" => stats = updateStatistics(tz, tasks, currentDate)

\* The step in which the initializeAuth of a page load has run to its end:
\* at once when the URL has no code, and with handleOAuthCallback when it has
\* one and the exchange failed.
LoadCompletes ==
    /\ authLoaded'
    /\ pending' = {}
    /\ \/ ~authLoaded
       \/ Call("handleOAuthCallback") \in pending /\ urlCode' # ""

\* C21: when initializeAuth has run to its end on a page load, also one whose
\* URL carries a code that the token endpoint refused, the session is
\* restored exactly when the slot held valid tokens: the user is then
\* authenticated with those tokens; otherwise the user is not authenticated
\* and stored tokens that are not valid have been removed from the slot.
C21_RestoresExactlyValidTokens ==
    [][LoadCompletes =>
          LET storedTokens == getStoredTokens(authSlot)
          IN  IF areTokensValid(storedTokens, sessionClock)
              THEN /\ isAuthenticated'
                   /\ tokens' = storedTokens
                   /\ authSlot' = authSlot
              ELSE /\ ~isAuthenticated'
                   /\ storedTokens # Null => authSlot' = Absent]_vars

\* C22: when handleOAuthCallback has run to its end, the exchange accepted
\* or refused, the URL of the page has no 'code' parameter any more.
C22_CodeRemovedAfterExchange ==
    [][(/\ Call("handleOAuthCallback") \in pending
        /\ Call("handleOAuthCallback") \notin pending'
        /\ authLoaded') => urlCode' = ""]_vars

\* C23: makeAuthenticatedRequest called while the user is not authenticated
\* sends nothing and rejects with 'User is not authenticated'; and when the
\* answer is 401 the call rejects with 'Session expired' and the session is
\* being ended: the user is unauthenticated or the logout that clears the
\* stored tokens has been started.
C23_UnauthorizedEndsSession ==
    [][/\ (makeAuthenticatedRequest /\ ~isAuthenticated) =>
             /\ pending' = pending
             /\ result'.value = Rejected("User is not authenticated")
       /\ (\E confirmed \in BOOLEAN :
              makeAuthenticatedRequestResumes(Unauthorized, confirmed)) =>
             /\ result'.value = Rejected("Session expired. Please login again.")
             /\ ~isAuthenticated' \/ Call("logout") \in pending']_vars

C27_ResetCompletesItsFlow ==
    [][\A code \in Codes :
          handleResetPassword(code) =>
             /\ (result.op = "forgotPassword" /\ result.value.success) =>
                   /\ code # "" => Call("confirmForgotPassword") \in pending'
                   /\ Call("completeNewPasswordChallenge") \notin pending'
             /\ code # "" => pending' # pending]_vars

\* C28: once the auth script and the app script have run, a run of
\* setupPageAuthentication passes the 'app initialised' check, applies the
\* page auth state and installs the listener, and schedules no retry.
C28_RetryLoopTerminates ==
    [][(authLoaded /\ setupPageAuthentication) =>
          /\ pageAuth' = "installed"
          /\ retries' = retries
          /\ loginRequired' = ~isAuthenticated]_vars

\* The sequence without its k-th element.
RemoveAt(s, k) == SubSeq(s, 1, k - 1) \o SubSeq(s, k + 1, Len(s))

\* C25: a confirmed deleteTask(id) of a listed task removes one task, the
\* one with that id, and keeps the others as they were and in their order;
\* a declined one leaves the collection and the slot as they were.
C25_DeleteRemovesExactlyOne ==
    [][\A id \in RenderedIds, confirmed \in BOOLEAN :
          deleteTask(id, confirmed) =>
             IF confirmed
             THEN \E k \in 1..Len(tasks) :
                     /\ tasks[k].id = id
                     /\ tasks' = RemoveAt(tasks, k)
             ELSE /\ tasks' = tasks
                  /\ storage' = storage]_vars

\* The instants at which the validity of a token bundle is asked: every
\* minute of the quarter of an hour after now.
CheckTimes(now) == {now + k * 60000 : k \in 0..15}

\* C26: for the tokens of both sign-in paths, areTokensValid is true exactly
\* at the times earlier than five minutes before the access token expires:
\* expires_in seconds after the exchange on the OAuth path, at the
\* expiration of the session's access token on the email path.
C26_ExpiryConsistentOnBothPaths ==
    [][/\ \A response \in TokenResponses :
             (response.ok /\ handleOAuthCallbackResumes(response)) =>
                \A now \in CheckTimes(sessionClock) :
                   areTokensValid(tokens', now) <=>
                      now < sessionClock + response.expires_in * 1000
                               - 5 * 60 * 1000
       /\ \A answer \in SignInAnswers(sessionClock) :
             (/\ answer.kind = "user"
              /\ getUserTokens(answer.session, sessionClock) # Null
              /\ signInWithEmailResumes(answer)) =>
                \A now \in CheckTimes(sessionClock) :
                   areTokensValid(tokens', now) <=>
                      now < answer.session.exp * 1000 - 5 * 60 * 1000]_vars

\* C29: the key that filters the tasks denotes the calendar day shown in the
\* #current-date header, and while the view is on the instant of the page
\* load both are the user's local today.
C29_KeyAndHeaderSameDay ==
    page = "ready" =>
        /\ TodayKey = dateDisplay
        /\ currentDate = clock.t =>
              /\ TodayKey = LocalCivil(tz, clock.t)
              /\ dateDisplay = LocalCivil(tz, clock.t)

\* C30: whatever the slot holds, the constructor completes: after loadTasks
\* the collection can be filtered by dates, and init finishes the display
\* and statistics steps without an error.
C30_LoadAlwaysGivesTasks ==
    [][Construct =>
          /\ page' = "ready"
          /\ taskList' = displayTasksForDate(tz, tasks', currentDate')
          /\ stats' = updateStatistics(tz, tasks', currentDate')]_vars

====
